---- MODULE Spec2Model ----
(***************************************************************************)
(* A model of orion's detection scaffolding:                               *)
(*   pkg/algorithmFactory.py  AlgorithmFactory.instantiate_algorithm       *)
(*   pkg/algorithm.py         Algorithm.output                             *)
(*   pkg/runTest.py           run                                          *)
(*   orion.py                 the cmd command and its option validation    *)
(*   orion-mcp.py             run_orion and the two MCP tools              *)
(*                                                                         *)
(* Python values are modelled as follows.  A call that may raise returns a *)
(* record [raised, value, ...] where raised = "" means a normal return.    *)
(* None is the record NoneValue.  A test of the configuration is the       *)
(* record [name |-> n]; the names of one configuration are distinct.       *)
(***************************************************************************)
EXTENDS Integers, Sequences, FiniteSets, TLC

\* ------------------------------------------------------------------ bounds
\* The number of tests a configuration lists at most (and of test names).
MaxTests == 3

\* ------------------------------------------------------- pkg.constants
EDIVISIVE == "EDivisive"
ISOLATION_FOREST == "IsolationForest"
JSON == "json"
TEXT == "text"

NoneValue == [class |-> "NoneType"]

Names == 1..MaxTests
Tests == {[name |-> n] : n \in Names}

\* What process_test returns for a test when it returns data.
DataFrame(test) == [class |-> "DataFrame", of |-> test.name]
DataFrames == {DataFrame(t) : t \in Tests}

\* The option values run() and the detectors read.
Formats == {JSON, TEXT, "csv", "JSON"}
Lookbacks == {"", "15d"}
KwargsSet ==
    [hunter_analyze : BOOLEAN, anomaly_detection : BOOLEAN,
     output_format : Formats, lookback : Lookbacks]

\* Matcher(index=test["index"], ...): one matcher per test.
Matcher(test) == [class |-> "Matcher", index |-> test.name]

\* --------------------------------------------- pkg/algorithmFactory.py
EDivisive(matcher, dataframe, test, options, metrics_config) ==
    [class |-> "EDivisive", matcher |-> matcher, dataframe |-> dataframe,
     test |-> test, options |-> options, metrics_config |-> metrics_config]

IsolationForestWeightedMean(matcher, dataframe, test, options, metrics_config) ==
    [class |-> "IsolationForestWeightedMean", matcher |-> matcher,
     dataframe |-> dataframe, test |-> test, options |-> options,
     metrics_config |-> metrics_config]

\* A plausible slip: the last branch falls back to a default detector
\* instead of raising.
instantiate_algorithm_default(algorithm, matcher, dataframe, test, options, metrics_config) ==
    IF algorithm = ISOLATION_FOREST
    THEN [raised |-> "", constructed |-> <<"IsolationForestWeightedMean">>,
          value |-> IsolationForestWeightedMean(matcher, dataframe, test, options, metrics_config)]
    ELSE [raised |-> "", constructed |-> <<"EDivisive">>,
          value |-> EDivisive(matcher, dataframe, test, options, metrics_config)]

\* AlgorithmFactory.instantiate_algorithm.  constructed lists the detector
\* constructors the call invoked.
instantiate_algorithm(algorithm, matcher, dataframe, test, options, metrics_config) ==
    IF algorithm = EDIVISIVE
    THEN [raised |-> "", constructed |-> <<"EDivisive">>,
          value |-> EDivisive(matcher, dataframe, test, options, metrics_config)]
    ELSE IF algorithm = ISOLATION_FOREST
    THEN [raised |-> "", constructed |-> <<"IsolationForestWeightedMean">>,
          value |-> IsolationForestWeightedMean(matcher, dataframe, test, options, metrics_config)]
    ELSE [raised |-> "ValueError", constructed |-> <<>>, value |-> NoneValue]

\* ---------------------------------------------------- pkg/algorithm.py
\* The two renderers are abstract in Algorithm; a detector's renderer
\* returns the pair (test name, rendered data).
output_json(self) ==
    <<self.test.name,
      [renderer |-> "output_json", detector |-> self.class, dataframe |-> self.dataframe]>>

output_text(self) ==
    <<self.test.name,
      [renderer |-> "output_text", detector |-> self.class, dataframe |-> self.dataframe]>>

\* A plausible slip: the second comparison is dropped and every format
\* that is not JSON is rendered as text.
output_fallback(self, output_format) ==
    IF output_format = JSON
    THEN [raised |-> "", rendered |-> <<"output_json">>, value |-> output_json(self)]
    ELSE [raised |-> "", rendered |-> <<"output_text">>, value |-> output_text(self)]

\* Algorithm.output.  rendered lists the renderers the call invoked.
output(self, output_format) ==
    IF output_format = JSON
    THEN [raised |-> "", rendered |-> <<"output_json">>, value |-> output_json(self)]
    ELSE IF output_format = TEXT
    THEN [raised |-> "", rendered |-> <<"output_text">>, value |-> output_text(self)]
    ELSE [raised |-> "ValueError", rendered |-> <<>>, value |-> NoneValue]

\* ------------------------------------------------------------ state
VARIABLES
    \* pkg/runTest.py run(): its arguments, locals and outcome
    tests,             \* data["tests"] of kwargs["configMap"]
    kwargs,            \* the options run() reads
    i,                 \* position of the for loop in tests
    pc,                \* the statement run() is at
    match,
    metrics_config,
    start_timestamp,
    result_dataframe,
    algorithm,
    result_output,
    runState,          \* idle, running, returned_None, returned_report, raised
    calls,             \* the calls run() made to its collaborators, in order
    \* the factory and the renderer dispatch called on their own
    uKind, uFormat, uArgs, uAlg, uOut, uPc,
    \* orion.py: the parse of a cmd command line and the command's end
    opts,              \* the parser's opts: the options the command line gives
    param_order,       \* the parser's order: their names as given
    params,            \* ctx.params
    pos,               \* position in the processing order
    cmdState,          \* idle, parsing, parsed, usage_error, run, exited
    exitStatus,
    \* orion-mcp.py: one call of an MCP tool
    tool, config, result, results, mcpPc, retval, ran

runVars ==
    <<tests, kwargs, i, pc, match, metrics_config, start_timestamp,
      result_dataframe, algorithm, result_output, runState, calls>>
unitVars == <<uKind, uFormat, uArgs, uAlg, uOut, uPc>>
cmdVars == <<opts, param_order, params, pos, cmdState, exitStatus>>
mcpVars == <<tool, config, result, results, mcpPc, retval, ran>>
vars == <<runVars, unitVars, cmdVars, mcpVars>>

\* ------------------------------------------------------ pkg/runTest.py
\* The configurations: lists of tests with distinct names.
TestLists ==
    {s \in UNION {[1..n -> Tests] : n \in 0..MaxTests} :
        \A a, b \in DOMAIN s : a # b => s[a].name # s[b].name}

EmptyDict == <<>>

\* get_subtracted_timestamp(kwargs["lookback"]): now minus the lookback.
get_subtracted_timestamp(lookback) == <<"utcnow", "-", lookback>>

\* A plausible slip: the report is re-created for every test.
StoreFresh(out, testname, result_data) ==
    [n \in {testname} |-> result_data]

\* result_output[testname] = result_data
Store(out, testname, result_data) ==
    [n \in DOMAIN out \cup {testname} |->
        IF n = testname THEN result_data ELSE out[n]]

\* The detection kind the if / elif of lines 53-66 selects, as the list of
\* kinds applied to a test.
SelectedKinds(options) ==
    IF options.hunter_analyze THEN <<EDIVISIVE>>
    ELSE IF options.anomaly_detection THEN <<ISOLATION_FOREST>>
    ELSE <<>>

Call(fn, test, arg) == [fn |-> fn, test |-> test.name, arg |-> arg]

RunIdle ==
    /\ tests = <<>> /\ kwargs = NoneValue /\ i = 0 /\ pc = "idle"
    /\ match = NoneValue /\ metrics_config = EmptyDict /\ start_timestamp = <<>>
    /\ result_dataframe = NoneValue /\ algorithm = NoneValue
    /\ result_output = EmptyDict /\ runState = "idle" /\ calls = <<>>

\* The state of run() at line 29, called with configuration t and options k.
RunEntered(t, k) ==
    /\ tests = t /\ kwargs = k /\ i = 1 /\ pc = "for"
    /\ match = NoneValue /\ metrics_config = EmptyDict /\ start_timestamp = <<>>
    /\ result_dataframe = NoneValue /\ algorithm = NoneValue
    /\ result_output = EmptyDict /\ runState = "running" /\ calls = <<>>

\* lines 30-38: the next test of the loop
RunForNext ==
    /\ runState = "running" /\ pc = "for" /\ i <= Len(tests)
    /\ match' = Matcher(tests[i])
    /\ metrics_config' = EmptyDict
    /\ start_timestamp' = <<>>
    /\ pc' = "lookback"
    /\ UNCHANGED <<tests, kwargs, i, result_dataframe, algorithm, result_output,
                   runState, calls>>
    /\ UNCHANGED <<unitVars, cmdVars, mcpVars>>

\* line 67: the loop is over
RunReturnReport ==
    /\ runState = "running" /\ pc = "for" /\ i > Len(tests)
    /\ runState' = "returned_report"
    /\ pc' = "done"
    /\ UNCHANGED <<tests, kwargs, i, match, metrics_config, start_timestamp,
                   result_dataframe, algorithm, result_output, calls>>
    /\ UNCHANGED <<unitVars, cmdVars, mcpVars>>

\* lines 39-40
RunLookback ==
    /\ runState = "running" /\ pc = "lookback"
    /\ IF kwargs.lookback # ""
       THEN /\ start_timestamp' = get_subtracted_timestamp(kwargs.lookback)
            /\ calls' = Append(calls,
                   Call("get_subtracted_timestamp", tests[i], kwargs.lookback))
       ELSE UNCHANGED <<start_timestamp, calls>>
    /\ pc' = "process_test"
    /\ UNCHANGED <<tests, kwargs, i, match, metrics_config, result_dataframe,
                   algorithm, result_output, runState>>
    /\ UNCHANGED <<unitVars, cmdVars, mcpVars>>

\* lines 41-50: the fetch returns None or the test's data
RunProcessTest ==
    /\ runState = "running" /\ pc = "process_test"
    /\ \E df \in {NoneValue, DataFrame(tests[i])} :
        /\ result_dataframe' = df
        /\ calls' = Append(calls, Call("process_test", tests[i], df.class))
    /\ pc' = "dispatch"
    /\ UNCHANGED <<tests, kwargs, i, match, metrics_config, start_timestamp,
                   algorithm, result_output, runState>>
    /\ UNCHANGED <<unitVars, cmdVars, mcpVars>>

\* A plausible slip: an empty fetch skips the test and the loop goes on.
RunEmptyDatasetContinue ==
    /\ runState = "running" /\ pc = "dispatch"
    /\ result_dataframe = NoneValue
    /\ i' = i + 1
    /\ pc' = "for"
    /\ UNCHANGED <<tests, kwargs, match, metrics_config, start_timestamp,
                   result_dataframe, algorithm, result_output, runState, calls>>
    /\ UNCHANGED <<unitVars, cmdVars, mcpVars>>

\* lines 51-52
RunEmptyDataset ==
    /\ runState = "running" /\ pc = "dispatch"
    /\ result_dataframe = NoneValue
    /\ runState' = "returned_None"
    /\ pc' = "done"
    /\ UNCHANGED <<tests, kwargs, i, match, metrics_config, start_timestamp,
                   result_dataframe, algorithm, result_output, calls>>
    /\ UNCHANGED <<unitVars, cmdVars, mcpVars>>

\* lines 53-57 and 60-64: the selected kind's detector is instantiated
RunInstantiate ==
    /\ runState = "running" /\ pc = "dispatch"
    /\ result_dataframe # NoneValue
    /\ SelectedKinds(kwargs) # <<>>
    /\ LET kind == SelectedKinds(kwargs)[1]
           r == instantiate_algorithm(kind, match, result_dataframe, tests[i],
                                      kwargs, metrics_config)
       IN  /\ calls' = Append(calls, Call("instantiate_algorithm", tests[i], kind))
           /\ algorithm' = r.value
           /\ IF r.raised = ""
              THEN pc' = "output" /\ UNCHANGED runState
              ELSE pc' = "done" /\ runState' = "raised"
    /\ UNCHANGED <<tests, kwargs, i, match, metrics_config, start_timestamp,
                   result_dataframe, result_output>>
    /\ UNCHANGED <<unitVars, cmdVars, mcpVars>>

\* neither branch of lines 53-66 is taken: the loop goes on
RunNoAnalysis ==
    /\ runState = "running" /\ pc = "dispatch"
    /\ result_dataframe # NoneValue
    /\ SelectedKinds(kwargs) = <<>>
    /\ i' = i + 1
    /\ pc' = "for"
    /\ UNCHANGED <<tests, kwargs, match, metrics_config, start_timestamp,
                   result_dataframe, algorithm, result_output, runState, calls>>
    /\ UNCHANGED <<unitVars, cmdVars, mcpVars>>

\* lines 58-59 and 65-66: render and store
RunOutput ==
    /\ runState = "running" /\ pc = "output"
    /\ LET r == output(algorithm, kwargs.output_format)
       IN  /\ calls' = Append(calls, Call("output", tests[i], kwargs.output_format))
           /\ IF r.raised = ""
              THEN /\ result_output' = Store(result_output, r.value[1], r.value[2])
                   /\ i' = i + 1
                   /\ pc' = "for"
                   /\ UNCHANGED runState
              ELSE /\ runState' = "raised"
                   /\ pc' = "done"
                   /\ UNCHANGED <<i, result_output>>
    /\ UNCHANGED <<tests, kwargs, match, metrics_config, start_timestamp,
                   result_dataframe, algorithm>>
    /\ UNCHANGED <<unitVars, cmdVars, mcpVars>>

\* ------------------------------- the factory and the dispatch on their own
Kinds == {EDIVISIVE, ISOLATION_FOREST, "edivisive", "ChangePoint", ""}

UnitArgs ==
    [matcher : {Matcher(t) : t \in Tests}, dataframe : DataFrames, test : Tests,
     options : KwargsSet, metrics_config : {EmptyDict}]

UnitIdle ==
    /\ uKind = "" /\ uFormat = "" /\ uArgs = NoneValue /\ uAlg = NoneValue
    /\ uOut = NoneValue /\ uPc = "idle"

\* algorithmFactory.instantiate_algorithm(uKind, ...) as run() calls it
UnitInstantiate ==
    /\ uPc = "start"
    /\ uAlg' = instantiate_algorithm(uKind, uArgs.matcher, uArgs.dataframe,
                   uArgs.test, uArgs.options, uArgs.metrics_config)
    /\ uPc' = IF uAlg'.raised = "" THEN "instantiated" ELSE "failed"
    /\ UNCHANGED <<uKind, uFormat, uArgs, uOut>>
    /\ UNCHANGED <<runVars, cmdVars, mcpVars>>

\* algorithm.output(uFormat) on the detector the factory returned
UnitOutput ==
    /\ uPc = "instantiated"
    /\ uOut' = output(uAlg.value, uFormat)
    /\ uPc' = "rendered"
    /\ UNCHANGED <<uKind, uFormat, uArgs, uAlg>>
    /\ UNCHANGED <<runVars, cmdVars, mcpVars>>

\* ------------------------------------------------------------ orion.py
\* Python values of ctx.params, tagged with their type.
None == [t |-> "NoneType"]
PyBool(b) == [t |-> "bool", v |-> b]
PyInt(n) == [t |-> "int", v |-> n]
PyStr(s) == [t |-> "str", v |-> s]

\* Python's truth value of x
Truthy(x) ==
    CASE x.t = "NoneType" -> FALSE
      [] x.t = "bool" -> x.v
      [] x.t = "int" -> x.v # 0
      [] x.t = "str" -> x.v # ""

\* The options of cmd that carry a check, in the order lines 72-103 declare
\* them (config, output-path, debug, uuid and baseline carry none).
Declared ==
    <<"hunter_analyze", "anomaly_window", "min_anomaly_percent",
      "anomaly_detection", "output_format">>

DeclaredNames == {Declared[k] : k \in DOMAIN Declared}

\* The values a command line can give an option: a flag is given or not, a
\* type=int option takes zero or a positive number, -o takes any word.
Supplied(name) ==
    CASE name \in {"hunter_analyze", "anomaly_detection"} -> {PyBool(TRUE)}
      [] name \in {"anomaly_window", "min_anomaly_percent"} -> {PyInt(0), PyInt(5)}
      [] name = "output_format" -> {PyStr(f) : f \in Formats}

\* The value of an option the command line does not give.
Default(name) ==
    CASE name \in {"hunter_analyze", "anomaly_detection"} -> PyBool(FALSE)
      [] name \in {"anomaly_window", "min_anomaly_percent"} -> None
      [] name = "output_format" -> PyStr(TEXT)

\* mutually_exclusive of the two MutuallyExclusiveOption options
mutually_exclusive(name) ==
    CASE name = "hunter_analyze" -> {"anomaly_detection"}
      [] name = "anomaly_detection" -> {"hunter_analyze"}
      [] OTHER -> {}

\* The command lines: the options given, each once, in any order.
CommandLines ==
    {o \in UNION {[1..n -> DeclaredNames] : n \in 0..Len(Declared)} :
        \A a, b \in DOMAIN o : a # b => o[a] # o[b]}

Range(f) == {f[k] : k \in DOMAIN f}

\* click processes the options the command line gives in the order given,
\* then the others in the order declared.
ProcessOrder(order) ==
    LET NotGiven(n) == n \notin Range(order)
    IN  order \o SelectSeq(Declared, NotGiven)

\* ctx.params.get(name)
Get(p, name) == IF name \in DOMAIN p THEN p[name] ELSE None

\* validate_anomaly_options(ctx, param, value)
validate_anomaly_options(p, value) ==
    IF (Truthy(value) \/ Truthy(Get(p, "anomaly_window"))
            \/ Truthy(Get(p, "min_anomaly_percent")))
       /\ ~Truthy(Get(p, "anomaly_detection"))
    THEN [raised |-> "UsageError", value |-> None]
    ELSE [raised |-> "", value |-> value]

\* handle_parse_result of the option name: MutuallyExclusiveOption's check,
\* the value given or the default, the Choice of -o, the callback.
handle_parse_result(name, o, p) ==
    LET value == IF name \in DOMAIN o THEN o[name] ELSE Default(name)
    IN  IF mutually_exclusive(name) \cap DOMAIN o # {} /\ name \in DOMAIN o
        THEN [raised |-> "UsageError", value |-> None]
        ELSE IF name = "output_format" /\ value.v \notin {JSON, TEXT}
        THEN [raised |-> "UsageError", value |-> None]
        ELSE IF name \in {"anomaly_window", "min_anomaly_percent"}
        THEN validate_anomaly_options(p, value)
        ELSE [raised |-> "", value |-> value]

\* The exit status of the cmd process: click exits 2 on a usage error, line
\* 116 exits 0 when run() returned None, the command returns (0) after
\* printing a report, an exception that nothing catches exits 1.
cmd_exit_status(ended) ==
    CASE ended = "usage_error" -> 2
      [] ended = "returned_None" -> 0
      [] ended = "returned_report" -> 0
      [] ended = "raised" -> 1

CmdIdle ==
    /\ opts = EmptyDict /\ param_order = <<>> /\ params = EmptyDict /\ pos = 0
    /\ cmdState = "idle" /\ exitStatus = -1

\* one option of the processing order is handled
CmdHandleParseResult ==
    /\ cmdState = "parsing"
    /\ LET order == ProcessOrder(param_order)
           name == order[pos]
           r == handle_parse_result(name, opts, params)
       IN  /\ r.raised = ""
           /\ params' = [n \in DOMAIN params \cup {name} |->
                            IF n = name THEN r.value ELSE params[n]]
           /\ pos' = pos + 1
           /\ cmdState' = IF pos = Len(order) THEN "parsed" ELSE "parsing"
    /\ UNCHANGED <<opts, param_order, exitStatus>>
    /\ UNCHANGED <<runVars, unitVars, mcpVars>>

\* an option's handling raises click.UsageError: the command is not run
CmdUsageError ==
    /\ cmdState = "parsing"
    /\ LET name == ProcessOrder(param_order)[pos]
       IN  handle_parse_result(name, opts, params).raised = "UsageError"
    /\ cmdState' = "usage_error"
    /\ exitStatus' = cmd_exit_status("usage_error")
    /\ UNCHANGED <<opts, param_order, params, pos>>
    /\ UNCHANGED <<runVars, unitVars, mcpVars>>

\* lines 108-113: the configuration is loaded and run() is entered with the
\* parsed options (the options this file does not declare, lookback among
\* them, come with the option map)
CmdInvoke ==
    /\ cmdState = "parsed"
    /\ \E t \in TestLists, lb \in Lookbacks :
        /\ tests' = t
        /\ kwargs' = [hunter_analyze |-> params["hunter_analyze"].v,
                      anomaly_detection |-> params["anomaly_detection"].v,
                      output_format |-> params["output_format"].v,
                      anomaly_window |-> params["anomaly_window"],
                      min_anomaly_percent |-> params["min_anomaly_percent"],
                      lookback |-> lb]
    /\ i' = 1 /\ pc' = "for" /\ runState' = "running"
    /\ cmdState' = "run"
    /\ opts' = EmptyDict /\ param_order' = <<>>
    /\ UNCHANGED <<match, metrics_config, start_timestamp, result_dataframe,
                   algorithm, result_output, calls>>
    /\ UNCHANGED <<params, pos, exitStatus>>
    /\ UNCHANGED <<unitVars, mcpVars>>

\* lines 114-120: the command ends
CmdExit ==
    /\ cmdState = "run"
    /\ runState \in {"returned_None", "returned_report", "raised"}
    /\ exitStatus' = cmd_exit_status(runState)
    /\ cmdState' = "exited"
    /\ UNCHANGED <<opts, param_order, params, pos>>
    /\ UNCHANGED <<runVars, unitVars, mcpVars>>

\* -------------------------------------------------------- orion-mcp.py
\* The length of orion_configs.
NumConfigs == 4

\* How launching the orion command ends: the launch raises (the program is
\* not found, or anything else), or the process runs and cmd ends in one of
\* its ways with some standard output.
CmdEnds == {"usage_error", "returned_None", "returned_report", "raised"}
Stdouts == {"not_json", "empty_list", "runs"}
OrionOutcomes ==
    {[launch |-> l, ended |-> "", stdout |-> ""] : l \in {"FileNotFoundError", "Exception"}}
    \cup {[launch |-> "started", ended |-> e, stdout |-> o] : e \in CmdEnds, o \in Stdouts}

\* run_orion: subprocess.run's result whatever its return code, and the
\* message of an except clause when the launch raises.
run_orion(outcome) ==
    IF outcome.launch = "started"
    THEN [class |-> "CompletedProcess", stdout |-> outcome.stdout,
          returncode |-> cmd_exit_status(outcome.ended)]
    ELSE IF outcome.launch = "FileNotFoundError"
    THEN [class |-> "str", text |-> "Error: 'orion' command not found."]
    ELSE [class |-> "str", text |-> "An unexpected error occurred"]

\* summarize_result: the empty dict unless stdout is a JSON list of runs.
summarize_result(r) == IF r.stdout = "runs" THEN "summary" ELSE "{}"

McpIdle ==
    /\ tool = "" /\ config = 0 /\ result = NoneValue /\ results = <<>>
    /\ mcpPc = "idle" /\ retval = None /\ ran = <<>>

\* lines 160-165 and 202-207: the next configuration's run_orion
McpRunOrion ==
    /\ mcpPc = "loop" /\ config <= NumConfigs
    /\ \E outcome \in OrionOutcomes :
        /\ result' = run_orion(outcome)
        /\ ran' = Append(ran, [config |-> config, launch |-> outcome.launch,
                               ended |-> outcome.ended])
    /\ mcpPc' = "check"
    /\ UNCHANGED <<tool, config, results, retval>>
    /\ UNCHANGED <<runVars, unitVars, cmdVars>>

\* lines 166 and 208: result.returncode of a str raises AttributeError
McpAttributeError ==
    /\ mcpPc = "check"
    /\ result.class # "CompletedProcess"
    /\ mcpPc' = "raised"
    /\ UNCHANGED <<tool, config, result, results, retval, ran>>
    /\ UNCHANGED <<runVars, unitVars, cmdVars>>

\* lines 208-209
HasRegressedTrue ==
    /\ tool = "has_openshift_regressed" /\ mcpPc = "check"
    /\ result.class = "CompletedProcess" /\ result.returncode # 0
    /\ retval' = PyBool(TRUE)
    /\ mcpPc' = "returned"
    /\ UNCHANGED <<tool, config, result, results, ran>>
    /\ UNCHANGED <<runVars, unitVars, cmdVars>>

\* line 208 is false: the loop goes on
HasRegressedNext ==
    /\ tool = "has_openshift_regressed" /\ mcpPc = "check"
    /\ result.class = "CompletedProcess" /\ result.returncode = 0
    /\ config' = config + 1
    /\ mcpPc' = "loop"
    /\ UNCHANGED <<tool, result, results, retval, ran>>
    /\ UNCHANGED <<runVars, unitVars, cmdVars>>

\* line 210
HasRegressedFalse ==
    /\ tool = "has_openshift_regressed" /\ mcpPc = "loop"
    /\ config > NumConfigs
    /\ retval' = PyBool(FALSE)
    /\ mcpPc' = "returned"
    /\ UNCHANGED <<tool, config, result, results, ran>>
    /\ UNCHANGED <<runVars, unitVars, cmdVars>>

\* lines 166-167: convert_results_to_csv is handed the summary itself; it
\* returns "" for the empty dict and fails on the items of a key otherwise
DetailedEarlyReturn ==
    /\ tool = "openshift_detailed_regression" /\ mcpPc = "check"
    /\ result.class = "CompletedProcess" /\ result.returncode # 0
    /\ IF summarize_result(result) = "{}"
       THEN retval' = PyStr("") /\ mcpPc' = "returned"
       ELSE mcpPc' = "raised" /\ UNCHANGED retval
    /\ UNCHANGED <<tool, config, result, results, ran>>
    /\ UNCHANGED <<runVars, unitVars, cmdVars>>

\* lines 169-171
DetailedAppend ==
    /\ tool = "openshift_detailed_regression" /\ mcpPc = "check"
    /\ result.class = "CompletedProcess" /\ result.returncode = 0
    /\ results' = Append(results, [config |-> config, data |-> summarize_result(result)])
    /\ config' = config + 1
    /\ mcpPc' = "loop"
    /\ UNCHANGED <<tool, result, retval, ran>>
    /\ UNCHANGED <<runVars, unitVars, cmdVars>>

\* line 172
DetailedReturn ==
    /\ tool = "openshift_detailed_regression" /\ mcpPc = "loop"
    /\ config > NumConfigs
    /\ retval' = PyStr("csv")
    /\ mcpPc' = "returned"
    /\ UNCHANGED <<tool, config, result, results, ran>>
    /\ UNCHANGED <<runVars, unitVars, cmdVars>>

\* ------------------------------------------------------ specifications
\* run() called with any configuration and any options
InitRun ==
    /\ \E t \in TestLists, k \in KwargsSet : RunEntered(t, k)
    /\ UnitIdle /\ CmdIdle /\ McpIdle

NextRun ==
    \/ RunForNext
    \/ RunReturnReport
    \/ RunLookback
    \/ RunProcessTest
    \/ RunEmptyDataset
    \/ RunInstantiate
    \/ RunNoAnalysis
    \/ RunOutput

SpecRun == InitRun /\ [][NextRun]_vars

\* the factory called with any kind, the renderer dispatch with any format
InitUnit ==
    /\ uKind \in Kinds /\ uFormat \in Formats /\ uArgs \in UnitArgs
    /\ uAlg = NoneValue /\ uOut = NoneValue /\ uPc = "start"
    /\ RunIdle /\ CmdIdle /\ McpIdle

NextUnit ==
    \/ UnitInstantiate
    \/ UnitOutput

SpecUnit == InitUnit /\ [][NextUnit]_vars

\* the cmd command given any command line
InitCmd ==
    /\ param_order \in CommandLines
    /\ opts \in {o \in [Range(param_order) -> UNION {Supplied(n) : n \in DeclaredNames}] :
                    \A n \in DOMAIN o : o[n] \in Supplied(n)}
    /\ params = EmptyDict /\ pos = 1 /\ cmdState = "parsing" /\ exitStatus = -1
    /\ RunIdle /\ UnitIdle /\ McpIdle

NextCmd ==
    \/ CmdHandleParseResult
    \/ CmdUsageError
    \/ CmdInvoke
    \/ RunForNext
    \/ RunReturnReport
    \/ RunLookback
    \/ RunProcessTest
    \/ RunEmptyDataset
    \/ RunInstantiate
    \/ RunNoAnalysis
    \/ RunOutput
    \/ CmdExit

SpecCmd == InitCmd /\ [][NextCmd]_vars

\* one call of either MCP tool
InitMcp ==
    /\ tool \in {"has_openshift_regressed", "openshift_detailed_regression"}
    /\ config = 1 /\ result = NoneValue /\ results = <<>> /\ mcpPc = "loop"
    /\ retval = None /\ ran = <<>>
    /\ RunIdle /\ UnitIdle /\ CmdIdle

NextMcp ==
    \/ McpRunOrion
    \/ McpAttributeError
    \/ HasRegressedTrue
    \/ HasRegressedNext
    \/ HasRegressedFalse
    \/ DetailedEarlyReturn
    \/ DetailedAppend
    \/ DetailedReturn

SpecMcp == InitMcp /\ [][NextMcp]_vars

\* -------------------------------------------------------------- claims
\* The call at position k of calls is a fetch that returned None.
EmptyFetch(k) == calls[k].fn = "process_test" /\ calls[k].arg = "NoneType"

\* C1: when the fetch of any test returns the empty result, run() returns
\* None and no report: the empty fetch is the last call run() makes (no
\* later test is fetched or analysed, the empty one is not analysed), and
\* run() ends by returning None whatever results earlier tests stored.
C1_EmptyDatasetAborts ==
    \A k \in DOMAIN calls : EmptyFetch(k) =>
        /\ k = Len(calls)
        /\ pc \in {"dispatch", "done"}
        /\ runState \in {"running", "returned_None"}
        /\ pc = "dispatch" => result_dataframe = NoneValue
        /\ pc = "done" => runState = "returned_None"

\* C1's case: the fetch of a test after the first and before the last came
\* back empty, results of earlier tests were stored, and run() returned None.
C1_Witness ==
    /\ runState = "returned_None"
    /\ DOMAIN result_output # {}
    /\ i < Len(tests)
    /\ EmptyFetch(Len(calls))

\* C2: a report run() returns holds one result for every configured test.
C2_ReportCoversEveryTest ==
    runState = "returned_report" =>
        /\ Cardinality(DOMAIN result_output) = Len(tests)
        /\ \A k \in DOMAIN tests : tests[k].name \in DOMAIN result_output

\* C3: an orion run that aborted without a report does not end with return
\* code 0, and has_openshift_regressed never answers False (no regression)
\* for a call in which some configuration's run aborted without a report.
C3_NoDefaultNoRegression ==
    /\ (mcpPc = "check" /\ ran[Len(ran)].ended = "returned_None")
           => result.returncode # 0
    /\ (tool = "has_openshift_regressed" /\ mcpPc = "returned"
           /\ retval.t = "bool" /\ ~retval.v)
           => \A k \in DOMAIN ran : ran[k].ended # "returned_None"

\* C4: the factory returns EDivisive for EDIVISIVE and
\* IsolationForestWeightedMean for ISOLATION_FOREST, constructing that
\* detector alone from the arguments unchanged, and for every other kind
\* raises ValueError and constructs no detector.
C4_FactoryDispatch ==
    uPc \in {"instantiated", "failed", "rendered"} =>
        /\ uKind = EDIVISIVE =>
              /\ uAlg.raised = "" /\ uAlg.value.class = "EDivisive"
              /\ uAlg.constructed = <<"EDivisive">>
        /\ uKind = ISOLATION_FOREST =>
              /\ uAlg.raised = ""
              /\ uAlg.value.class = "IsolationForestWeightedMean"
              /\ uAlg.constructed = <<"IsolationForestWeightedMean">>
        /\ uKind \notin {EDIVISIVE, ISOLATION_FOREST} =>
              /\ uAlg.raised = "ValueError" /\ uAlg.constructed = <<>>
              /\ uPc = "failed"
        /\ uAlg.raised = "" =>
              /\ uAlg.value.matcher = uArgs.matcher
              /\ uAlg.value.dataframe = uArgs.dataframe
              /\ uAlg.value.test = uArgs.test
              /\ uAlg.value.options = uArgs.options
              /\ uAlg.value.metrics_config = uArgs.metrics_config

\* C4's case: the factory was called with a kind that is neither constant.
C4_Witness ==
    /\ uPc = "failed"
    /\ uKind = "edivisive"
    /\ uAlg.raised = "ValueError"

\* C5: output(format) invokes the json renderer alone for JSON and the text
\* renderer alone for TEXT and returns what it returned; for every other
\* format it raises ValueError and invokes no renderer.
C5_OutputDispatch ==
    uPc = "rendered" =>
        /\ uFormat = JSON =>
              /\ uOut.raised = "" /\ uOut.rendered = <<"output_json">>
              /\ uOut.value = output_json(uAlg.value)
        /\ uFormat = TEXT =>
              /\ uOut.raised = "" /\ uOut.rendered = <<"output_text">>
              /\ uOut.value = output_text(uAlg.value)
        /\ uFormat \notin {JSON, TEXT} =>
              /\ uOut.raised = "ValueError" /\ uOut.rendered = <<>>

\* C5's case: output was called with a format that is neither constant.
C5_Witness ==
    /\ uPc = "rendered"
    /\ uFormat = "JSON"
    /\ uOut.raised = "ValueError"

\* The detection kinds applied to the test named n.
KindsApplied(n) ==
    {calls[k].arg : k \in {j \in DOMAIN calls :
        calls[j].fn = "instantiate_algorithm" /\ calls[j].test = n}}

\* C6: every test of a finished run was analysed by exactly one of the two
\* detectors: never by both, never by neither.
C6_ExactlyOneKind ==
    runState = "returned_report" =>
        \A k \in DOMAIN tests : Cardinality(KindsApplied(tests[k].name)) = 1

\* The position of the test named n in the configuration.
Pos(n) == CHOOSE k \in DOMAIN tests : tests[k].name = n

\* The place of a call in the processing of one test.
Rank(fn) ==
    CASE fn = "get_subtracted_timestamp" -> 1
      [] fn = "process_test" -> 2
      [] fn = "instantiate_algorithm" -> 3
      [] fn = "output" -> 4

\* Call a comes before call b: an earlier test, or an earlier step of the
\* same test.
Before(a, b) ==
    \/ Pos(a.test) < Pos(b.test)
    \/ a.test = b.test /\ Rank(a.fn) < Rank(b.fn)

HasCall(fn, n, upto) ==
    \E k \in 1..upto : calls[k].fn = fn /\ calls[k].test = n

\* The calls made so far are in configuration order, test by test and step
\* by step, each step after the steps it follows.
CallsInOrder ==
    /\ \A a, b \in DOMAIN calls : a < b => Before(calls[a], calls[b])
    /\ \A k \in DOMAIN calls :
        /\ calls[k].fn = "process_test" /\ kwargs.lookback # ""
              => HasCall("get_subtracted_timestamp", calls[k].test, k)
        /\ calls[k].fn = "instantiate_algorithm"
              => HasCall("process_test", calls[k].test, k)
        /\ calls[k].fn = "output"
              => HasCall("instantiate_algorithm", calls[k].test, k)
    /\ \A n \in DOMAIN result_output : HasCall("output", n, Len(calls))

\* No step changes or removes an entry of the report.
AppendOnly ==
    \A n \in DOMAIN result_output :
        n \in DOMAIN result_output' /\ result_output'[n] = result_output[n]

RanZero(k) ==
    ran[k].launch = "started" /\ cmd_exit_status(ran[k].ended) = 0

\* C8: has_openshift_regressed ends every call by returning a boolean: True
\* at the first configuration, in order, whose run has a non-zero return
\* code, False after all four ran with return code 0.
C8_ReturnsVerdict ==
    tool = "has_openshift_regressed" =>
        /\ \A k \in DOMAIN ran : ran[k].config = k
        /\ mcpPc # "raised"
        /\ mcpPc = "returned" =>
              /\ retval.t = "bool"
              /\ retval.v =>
                    /\ ~RanZero(Len(ran))
                    /\ \A k \in 1..(Len(ran) - 1) : RanZero(k)
              /\ ~retval.v =>
                    /\ Len(ran) = NumConfigs
                    /\ \A k \in DOMAIN ran : RanZero(k)

\* The command line gives --anomaly-window or --min-anomaly-percent.
AnomalyOptionGiven ==
    "anomaly_window" \in DOMAIN opts \/ "min_anomaly_percent" \in DOMAIN opts

\* Nothing else of the command line is a usage error.
OtherwiseValid ==
    /\ "hunter_analyze" \notin DOMAIN opts
    /\ "output_format" \in DOMAIN opts => opts["output_format"].v \in {JSON, TEXT}

\* C9: a command line that gives --anomaly-window or --min-anomaly-percent
\* is rejected with a usage error without --anomaly-detection and accepted
\* with it, in whatever order the options are given.
C9_AnomalyOptionsNeedDetection ==
    cmdState \in {"parsed", "usage_error"} =>
        /\ (AnomalyOptionGiven /\ "anomaly_detection" \notin DOMAIN opts)
              => cmdState = "usage_error"
        /\ (AnomalyOptionGiven /\ "anomaly_detection" \in DOMAIN opts
              /\ OtherwiseValid) => cmdState = "parsed"

\* C10: what run_orion returns is a CompletedProcess for every outcome of
\* launching the command, so reading its returncode never fails.
C10_ReturnsCompletedProcess ==
    /\ mcpPc = "check" => result.class = "CompletedProcess"
    /\ ~ENABLED McpAttributeError

====
